---- MODULE Spec2Model ----
(***************************************************************************)
(* Model of scripts/check-db.js: the pre-deployment database readiness     *)
(* pipeline (checkEnv, checkConnection, checkDatabaseVersion,              *)
(* checkV1Tables, fixMigrationState, applyMigration) and its driver.       *)
(*                                                                         *)
(* Every await of the source is one step of the model, so that changes     *)
(* made to the database by others can fall between two statements of the   *)
(* repair.  Every database statement may fail; a failure carries an error  *)
(* message, modelled by the set of phrases the code searches it for.       *)
(***************************************************************************)
EXTENDS Integers, Sequences, FiniteSets, TLC

VARIABLES
    env,                \* process.env: SKIP_DB_CHECK, DATABASE_URL, SKIP_DB_MIGRATION
    ledger,             \* rows of table _prisma_migrations
    column,             \* website_event.hostname exists in the schema
    conn,               \* the prisma client holds an open connection
    pc,                 \* position of the process
    step,               \* index of fn in the driver's list, 1..6
    err,                \* the driver's flag err
    exitCode,           \* status given to process.exit, read when pc = "exited"
    version,            \* checkDatabaseVersion: the coerced version
    existingMigrations, \* fixMigrationState: rows read at step 1
    exists,             \* fixMigrationState: columnExists[0]?.exists
    ret,                \* values returned by the calls of fixMigrationState so far
    nextId,             \* source of gen_random_uuid()
    io,                 \* history: every I/O operation attempted, in order
    db0,                \* history: ledger and column when fixMigrationState began
    calls,              \* number of calls of fixMigrationState begun
    peer                \* a second process running the script: its own state

vars == <<env, ledger, column, conn, pc, step, err, exitCode, version,
          existingMigrations, exists, ret, nextId, io, db0, calls, peer>>

----------------------------------------------------------------------------
(* Bounds *)

\* largest number of rows in the ledger at the start
MaxRecs == 2

\* calls of fixMigrationState made in succession by SpecRepair
MaxCalls == 2

----------------------------------------------------------------------------
(* Values *)

\* SQL NULL for a timestamp column
Null == 0

\* '2023-04-17', the v2 release date compared with started_at
Cutoff == 2

\* NOW() at the time of the run, after the cutoff
NowTs == 3

TargetMigration == "09_update_hostname_region"

FixedChecksum == "e94d9993b17ac5c330ae3f872fd5869fb8095a3f3a7d31d2aaade73dc45fbe9c"

\* A process.env entry: <<>> is undefined, otherwise the string as the list of
\* its ':'-separated pieces (so <<"">> is the empty string).
Undefined == <<>>

\* JavaScript truthiness of a process.env entry
Truthy(v) == v # Undefined /\ v # <<"">>

FlagValues == {Undefined, <<"">>, <<"1">>}

UrlValues == {Undefined, <<"">>,
              <<"postgresql", "//u", "p@db", "5432/umami">>,
              <<"postgres", "//u", "p@db", "5432/umami">>,
              <<"mysql", "//u", "p@db", "3306/umami">>}

\* The first run of dot-separated numbers in the text returned by
\* select version(); <<>> when the text holds no number.
VersionStrings == {<<>>, <<9>>, <<9, 3, 2>>, <<9, 3, 9>>, <<9, 4>>, <<9, 4, 0>>,
                   <<9, 4, 1, 7>>, <<10, 0>>, <<5, 6, 9>>, <<5, 7>>, <<5, 7, 0>>,
                   <<5, 8>>, <<4, 9, 9>>, <<8, 0, 26>>}

\* semver.valid(semver.coerce(s)): null (<<>>) when there is no number, else
\* the first three numbers, missing ones being 0
Coerce(s) ==
    IF Len(s) = 0 THEN <<>>
    ELSE <<s[1], IF Len(s) >= 2 THEN s[2] ELSE 0, IF Len(s) >= 3 THEN s[3] ELSE 0>>

\* semver.lt(a, b) on two valid versions
SemverLt(a, b) ==
    \/ a[1] < b[1]
    \/ a[1] = b[1] /\ a[2] < b[2]
    \/ a[1] = b[1] /\ a[2] = b[2] /\ a[3] < b[3]

GetDatabaseType_NoAlias(url) ==
    IF Truthy(url) THEN Head(url) ELSE ""

\* getDatabaseType: the scheme of the URL, 'postgres' read as 'postgresql'
GetDatabaseType(url) ==
    LET type == IF Truthy(url) THEN Head(url) ELSE ""
    IN  IF type = "postgres" THEN "postgresql" ELSE type

\* minVersion of checkDatabaseVersion
MinVersion(databaseType) ==
    IF databaseType = "postgresql" THEN <<9, 4, 0>> ELSE <<5, 7, 0>>

\* Error messages of failed statements, as the set of searched phrases each holds
ErrMsgs == {{}, {"already exists"}, {"duplicate column"}}

\* error.message.includes(phrase)
Includes(msg, phrase) == phrase \in msg

\* What a statement can do: succeed, or fail with one of the messages
Outcomes == {[ok |-> TRUE, msg |-> {}]} \cup {[ok |-> FALSE, msg |-> m] : m \in ErrMsgs}

\* Rows the ledger can hold at the start
Row(id, name, started, finished, rolledBack, count) ==
    [id |-> id, migration_name |-> name, checksum |-> "other",
     started_at |-> started, finished_at |-> finished,
     rolled_back_at |-> rolledBack, applied_steps_count |-> count]

RowPool == {
    Row(1, TargetMigration, NowTs, NowTs, Null, 1),      \* applied
    Row(2, TargetMigration, NowTs, NowTs, Null, 1),      \* applied, a second time
    Row(3, TargetMigration, NowTs, Null, Null, 0),       \* started, never finished
    Row(4, TargetMigration, NowTs, NowTs, NowTs, 1),     \* rolled back
    Row(5, TargetMigration, NowTs, NowTs, Null, 0),      \* finished with no step
    Row(6, "01_init", Cutoff - 1, Cutoff - 1, Null, 1),  \* a v1 migration
    Row(7, "01_init", Cutoff, Cutoff, Null, 1) }         \* started at the cutoff

InitialLedgers == {l \in SUBSET RowPool : Cardinality(l) <= MaxRecs}

\* gen_random_uuid() never repeats an id already in the table
FirstFreshId == Cardinality(RowPool) + 1

\* FreshRow with finished_at left NULL
FreshRow_Unfinished(id) ==
    [id |-> id, migration_name |-> TargetMigration, checksum |-> FixedChecksum,
     started_at |-> NowTs, finished_at |-> Null,
     rolled_back_at |-> Null, applied_steps_count |-> 1]

\* The row both INSERT statements write
FreshRow(id) ==
    [id |-> id, migration_name |-> TargetMigration, checksum |-> FixedChecksum,
     started_at |-> NowTs, finished_at |-> NowTs,
     rolled_back_at |-> Null, applied_steps_count |-> 1]

\* TargetRows without the WHERE clause
TargetRows_All(l) == l

\* WHERE migration_name = '09_update_hostname_region'
TargetRows(l) == {m \in l : m.migration_name = TargetMigration}

\* LegacyRows with the cutoff day itself counted as before the cutoff
LegacyRows_AtOrBefore(l) == {m \in l : m.started_at <= Cutoff}

\* WHERE started_at < '2023-04-17'
LegacyRows(l) == {m \in l : m.started_at < Cutoff}

\* m.finished_at && m.applied_steps_count > 0 && !m.rolled_back_at
IsValidMigration(m) ==
    m.finished_at # Null /\ m.applied_steps_count > 0 /\ m.rolled_back_at = Null

\* HasValidMigration asking every row, not some row, to be valid
HasValidMigration_Every(rows) == rows # {} /\ \A m \in rows : IsValidMigration(m)

\* existingMigrations.some(...)
HasValidMigration(rows) == \E m \in rows : IsValidMigration(m)

\* Result sets the metadata query gives for the present schema
MetadataResults(col) == {<<[exists |-> col]>>}

\* Result sets of another shape: no row, or a row with no field "exists"
MalformedResults == {<<>>, <<[present |-> TRUE]>>}

\* FirstExists taking a missing answer for a yes
FirstExists_DefaultTrue(rows) ==
    IF Len(rows) > 0 /\ "exists" \in DOMAIN rows[1] THEN rows[1].exists ELSE TRUE

\* columnExists[0]?.exists, undefined being falsy
FirstExists(rows) ==
    IF Len(rows) > 0 /\ "exists" \in DOMAIN rows[1] THEN rows[1].exists ELSE FALSE

----------------------------------------------------------------------------
(* The driver's list of steps *)

StepPc == <<"checkEnv", "checkConnection", "checkDatabaseVersion",
            "checkV1Tables", "fix_readLedger", "applyMigration">>

FixPcs == {"fix_readLedger", "fix_readColumn", "fix_delete", "fix_alter",
           "fix_insert", "fix_recDelete", "fix_recInsert"}

Snapshot == [ledger |-> ledger, column |-> column]

Logged(op, ok) == Append(io, [op |-> op, ok |-> ok])

\* The state private to a process: its position, its locals, its client
Private(p, e, em, ex, r, c, d, k) ==
    [pc |-> p, err |-> e, existingMigrations |-> em, exists |-> ex,
     ret |-> r, conn |-> c, db0 |-> d, calls |-> k]

\* No second process runs
NoPeer ==
    Private("none", FALSE, {}, FALSE, <<>>, FALSE, [ledger |-> {}, column |-> FALSE], 0)

\* The connection after a statement: a statement sent on a disconnected client
\* connects first; a failed one may have failed before or after connecting.
ConnAfter(ok) == IF ok \/ conn THEN {TRUE} ELSE BOOLEAN

----------------------------------------------------------------------------
(* Outcomes of a function called by the driver *)

\* fn() resolves: the driver goes to its finally block
Completes == pc' = "finally" /\ err' = err

\* fn() rejects: the driver's catch sets err, then its finally block runs
Throws == pc' = "finally" /\ err' = TRUE

\* fixMigrationState returns v
Returns(v) == pc' = "finally" /\ err' = err /\ ret' = Append(ret, v)

\* Catch without the duplicate-column recovery
Catch_NoRecovery(msg) == Returns(FALSE)

\* The handler of fixMigrationState's outer try, for a statement that failed
\* with message msg: the duplicate-column recovery, or return false
Catch(msg) ==
    IF Includes(msg, "already exists") \/ Includes(msg, "duplicate column")
    THEN pc' = "fix_recDelete" /\ UNCHANGED <<err, ret>>
    ELSE Returns(FALSE)

----------------------------------------------------------------------------
(* The initial state *)

InitCommon ==
    /\ column \in BOOLEAN
    /\ ledger \in InitialLedgers
    /\ conn = FALSE
    /\ err = FALSE
    /\ exitCode = 0
    /\ version = <<>>
    /\ existingMigrations = {}
    /\ exists = FALSE
    /\ ret = <<>>
    /\ nextId = FirstFreshId
    /\ io = <<>>
    /\ db0 = Snapshot

\* The process starts: any environment, any database
Init ==
    /\ env \in [SKIP_DB_CHECK : FlagValues, DATABASE_URL : UrlValues,
                SKIP_DB_MIGRATION : FlagValues]
    /\ pc = "boot"
    /\ step = 1
    /\ calls = 0
    /\ InitCommon
    /\ peer = NoPeer

----------------------------------------------------------------------------
(* The steps of the pipeline *)

\* SkipGuard with the flag never read
SkipGuard_Ignored ==
    /\ pc = "boot"
    /\ pc' = StepPc[1]
    /\ UNCHANGED <<peer, env, ledger, column, conn, step, err, exitCode, version,
                   existingMigrations, exists, ret, nextId, io, db0, calls>>

\* if (process.env.SKIP_DB_CHECK) process.exit(0)
SkipGuard ==
    /\ pc = "boot"
    /\ IF Truthy(env.SKIP_DB_CHECK)
       THEN pc' = "exited" /\ exitCode' = 0
       ELSE pc' = StepPc[1] /\ exitCode' = exitCode
    /\ UNCHANGED <<peer, env, ledger, column, conn, step, err, version,
                   existingMigrations, exists, ret, nextId, io, db0, calls>>

\* checkEnv that does not throw
CheckEnv_NoThrow ==
    /\ pc = "checkEnv"
    /\ Completes
    /\ UNCHANGED <<peer, env, ledger, column, conn, step, exitCode, version,
                   existingMigrations, exists, ret, nextId, io, db0, calls>>

CheckEnv ==
    /\ pc = "checkEnv"
    /\ IF ~Truthy(env.DATABASE_URL) THEN Throws ELSE Completes
    /\ UNCHANGED <<peer, env, ledger, column, conn, step, exitCode, version,
                   existingMigrations, exists, ret, nextId, io, db0, calls>>

CheckConnection ==
    /\ pc = "checkConnection"
    /\ \E ok \in BOOLEAN :
        /\ io' = Logged("$connect", ok)
        /\ conn' = ok
        /\ IF ok THEN Completes ELSE Throws
    /\ UNCHANGED <<peer, env, ledger, column, step, exitCode, version,
                   existingMigrations, exists, ret, nextId, db0, calls>>

CheckDatabaseVersion ==
    /\ pc = "checkDatabaseVersion"
    /\ \E o \in Outcomes :
        /\ io' = Logged("select version", o.ok)
        /\ conn' \in ConnAfter(o.ok)
        /\ IF o.ok
           THEN \E s \in VersionStrings :
                  /\ version' = Coerce(s)
                  /\ IF version' = <<>>
                     THEN Throws    \* semver.lt(null, ...) raises a TypeError
                     ELSE IF SemverLt(version',
                                      MinVersion(GetDatabaseType(env.DATABASE_URL)))
                          THEN Throws
                          ELSE Completes
           ELSE version' = version /\ Throws
    /\ UNCHANGED <<peer, env, ledger, column, step, exitCode,
                   existingMigrations, exists, ret, nextId, db0, calls>>

\* checkV1Tables with the query's failure passed on to the driver
CheckV1Tables_Rethrow ==
    /\ pc = "checkV1Tables"
    /\ \E o \in Outcomes :
        /\ io' = Logged("select v1", o.ok)
        /\ conn' \in ConnAfter(o.ok)
        /\ IF ~o.ok
           THEN Throws /\ exitCode' = exitCode
           ELSE IF Cardinality(LegacyRows(ledger)) > 0
                THEN pc' = "exited" /\ exitCode' = 1 /\ err' = err
                ELSE Completes /\ exitCode' = exitCode
    /\ UNCHANGED <<peer, env, ledger, column, step, version,
                   existingMigrations, exists, ret, nextId, db0, calls>>

CheckV1Tables ==
    /\ pc = "checkV1Tables"
    /\ \E o \in Outcomes :
        /\ io' = Logged("select v1", o.ok)
        /\ conn' \in ConnAfter(o.ok)
        /\ IF o.ok /\ Cardinality(LegacyRows(ledger)) > 0
           THEN pc' = "exited" /\ exitCode' = 1 /\ err' = err   \* process.exit(1)
           ELSE Completes /\ exitCode' = exitCode               \* catch: ignore
    /\ UNCHANGED <<peer, env, ledger, column, step, version,
                   existingMigrations, exists, ret, nextId, db0, calls>>

\* applyMigration that does not read SKIP_DB_MIGRATION
ApplyMigration_Always ==
    /\ pc = "applyMigration"
    /\ \E ok \in BOOLEAN :
        /\ io' = Logged("prisma migrate deploy", ok)
        /\ IF ok THEN Completes ELSE Throws
    /\ UNCHANGED <<peer, env, ledger, column, conn, step, exitCode, version,
                   existingMigrations, exists, ret, nextId, db0, calls>>

ApplyMigration ==
    /\ pc = "applyMigration"
    /\ IF ~Truthy(env.SKIP_DB_MIGRATION)
       THEN \E ok \in BOOLEAN :
              /\ io' = Logged("prisma migrate deploy", ok)
              /\ IF ok THEN Completes ELSE Throws
       ELSE io' = io /\ Completes
    /\ UNCHANGED <<peer, env, ledger, column, conn, step, exitCode, version,
                   existingMigrations, exists, ret, nextId, db0, calls>>

\* The driver's finally block without the test of err
Finally_IgnoreErr ==
    /\ pc = "finally"
    /\ io' = Logged("$disconnect", TRUE)
    /\ conn' = FALSE
    /\ IF step = Len(StepPc)
       THEN pc' = "exited" /\ exitCode' = 0 /\ step' = step
       ELSE pc' = StepPc[step + 1] /\ exitCode' = exitCode /\ step' = step + 1
    /\ version' = <<>>
    /\ existingMigrations' = {}
    /\ exists' = FALSE
    /\ UNCHANGED <<peer, env, ledger, column, err, ret, nextId, db0, calls>>

\* The driver's finally block, and the turn of the loop after it
Finally ==
    /\ pc = "finally"
    /\ io' = Logged("$disconnect", TRUE)
    /\ conn' = FALSE
    /\ IF err
       THEN pc' = "exited" /\ exitCode' = 1 /\ step' = step
       ELSE IF step = Len(StepPc)
            THEN pc' = "exited" /\ exitCode' = 0 /\ step' = step
            ELSE pc' = StepPc[step + 1] /\ exitCode' = exitCode /\ step' = step + 1
    /\ version' = <<>>
    /\ existingMigrations' = {}
    /\ exists' = FALSE
    /\ UNCHANGED <<peer, env, ledger, column, err, ret, nextId, db0, calls>>

----------------------------------------------------------------------------
(* fixMigrationState, one action for each awaited statement *)

\* Step 1: SELECT * FROM _prisma_migrations WHERE migration_name = ...
FixReadLedger ==
    /\ pc = "fix_readLedger"
    /\ calls' = calls + 1
    /\ db0' = Snapshot
    /\ \E o \in Outcomes :
        /\ io' = Logged("select migration", o.ok)
        /\ conn' \in ConnAfter(o.ok)
        /\ IF o.ok
           THEN /\ existingMigrations' = TargetRows(ledger)
                /\ pc' = "fix_readColumn"
                /\ UNCHANGED <<err, ret>>
           ELSE existingMigrations' = existingMigrations /\ Catch(o.msg)
    /\ UNCHANGED <<peer, env, ledger, column, step, exitCode, version, exists, nextId>>

\* AfterClear with step 5, the ALTER, left out
AfterClear_SkipAlter(colExists) == "fix_insert"

\* What follows the DELETE of step 4, or its being skipped
AfterClear(colExists) == IF ~colExists THEN "fix_alter" ELSE "fix_insert"

\* Step 2: the metadata query; step 3: the decision
FixReadColumn ==
    /\ pc = "fix_readColumn"
    /\ \E o \in Outcomes :
        /\ io' = Logged("select column", o.ok)
        /\ conn' \in ConnAfter(o.ok)
        /\ IF o.ok
           THEN \E columnExists \in MetadataResults(column) :
                  /\ exists' = FirstExists(columnExists)
                  /\ IF exists' /\ HasValidMigration(existingMigrations)
                     THEN Returns(TRUE)
                     ELSE /\ pc' = IF Cardinality(existingMigrations) > 0
                                   THEN "fix_delete"
                                   ELSE AfterClear(exists')
                          /\ UNCHANGED <<err, ret>>
           ELSE exists' = exists /\ Catch(o.msg)
    /\ UNCHANGED <<peer, env, ledger, column, step, exitCode, version,
                   existingMigrations, nextId, db0, calls>>

\* FixDelete removing only the rows that are not valid
FixDelete_InvalidOnly ==
    /\ pc = "fix_delete"
    /\ \E o \in Outcomes :
        /\ io' = Logged("DELETE", o.ok)
        /\ conn' \in ConnAfter(o.ok)
        /\ IF o.ok
           THEN /\ ledger' = ledger \ {m \in TargetRows(ledger) : ~IsValidMigration(m)}
                /\ pc' = AfterClear(exists)
                /\ UNCHANGED <<err, ret>>
           ELSE ledger' = ledger /\ Catch(o.msg)
    /\ UNCHANGED <<peer, env, column, step, exitCode, version,
                   existingMigrations, exists, nextId, db0, calls>>

\* Step 4: DELETE FROM _prisma_migrations WHERE migration_name = ...
FixDelete ==
    /\ pc = "fix_delete"
    /\ \E o \in Outcomes :
        /\ io' = Logged("DELETE", o.ok)
        /\ conn' \in ConnAfter(o.ok)
        /\ IF o.ok
           THEN /\ ledger' = ledger \ TargetRows(ledger)
                /\ pc' = AfterClear(exists)
                /\ UNCHANGED <<err, ret>>
           ELSE ledger' = ledger /\ Catch(o.msg)
    /\ UNCHANGED <<peer, env, column, step, exitCode, version,
                   existingMigrations, exists, nextId, db0, calls>>

\* Step 5: ALTER TABLE "website_event" ADD COLUMN "hostname"
\* The database refuses to add a column that exists.
FixAlter ==
    /\ pc = "fix_alter"
    /\ \E o \in Outcomes :
        /\ column => (~o.ok /\ o.msg = {"already exists"})
        /\ io' = Logged("ALTER", o.ok)
        /\ conn' \in ConnAfter(o.ok)
        /\ IF o.ok
           THEN /\ column' = TRUE
                /\ pc' = "fix_insert"
                /\ UNCHANGED <<err, ret>>
           ELSE column' = column /\ Catch(o.msg)
    /\ UNCHANGED <<peer, env, ledger, step, exitCode, version,
                   existingMigrations, exists, nextId, db0, calls>>

\* Step 6: INSERT INTO _prisma_migrations (...) VALUES (gen_random_uuid(), ...)
FixInsert ==
    /\ pc = "fix_insert"
    /\ \E o \in Outcomes :
        /\ io' = Logged("INSERT", o.ok)
        /\ conn' \in ConnAfter(o.ok)
        /\ IF o.ok
           THEN /\ ledger' = ledger \cup {FreshRow(nextId)}
                /\ nextId' = nextId + 1
                /\ Returns(TRUE)
           ELSE UNCHANGED <<ledger, nextId>> /\ Catch(o.msg)
    /\ UNCHANGED <<peer, env, column, step, exitCode, version,
                   existingMigrations, exists, db0, calls>>

\* In the handler "catch (error)", the name error is the caught exception, not
\* the function error(msg) of the module: the call error('Failed to mark ...')
\* in the inner handler raises a TypeError, which leaves fixMigrationState.
InnerCatch == Throws /\ ret' = ret

\* Recovery: DELETE FROM _prisma_migrations WHERE migration_name = ...
FixRecoverDelete ==
    /\ pc = "fix_recDelete"
    /\ \E o \in Outcomes :
        /\ io' = Logged("DELETE", o.ok)
        /\ conn' \in ConnAfter(o.ok)
        /\ IF o.ok
           THEN /\ ledger' = ledger \ TargetRows(ledger)
                /\ pc' = "fix_recInsert"
                /\ UNCHANGED <<err, ret>>
           ELSE ledger' = ledger /\ InnerCatch
    /\ UNCHANGED <<peer, env, column, step, exitCode, version,
                   existingMigrations, exists, nextId, db0, calls>>

\* Recovery: INSERT INTO _prisma_migrations (...)
FixRecoverInsert ==
    /\ pc = "fix_recInsert"
    /\ \E o \in Outcomes :
        /\ io' = Logged("INSERT", o.ok)
        /\ conn' \in ConnAfter(o.ok)
        /\ IF o.ok
           THEN /\ ledger' = ledger \cup {FreshRow(nextId)}
                /\ nextId' = nextId + 1
                /\ Returns(TRUE)
           ELSE UNCHANGED <<ledger, nextId>> /\ InnerCatch
    /\ UNCHANGED <<peer, env, column, step, exitCode, version,
                   existingMigrations, exists, db0, calls>>

----------------------------------------------------------------------------
(* The world outside the process *)

\* Somebody else adds the column while the repair is under way
AddColumnOutOfBand ==
    /\ pc \in FixPcs
    /\ ~column
    /\ column' = TRUE
    /\ io' = Logged("out-of-band ADD COLUMN", TRUE)
    /\ UNCHANGED <<peer, env, ledger, conn, pc, step, err, exitCode, version,
                   existingMigrations, exists, ret, nextId, db0, calls>>

----------------------------------------------------------------------------
(* The pipeline *)

FixStep ==
    \/ FixReadLedger
    \/ FixReadColumn
    \/ FixDelete
    \/ FixAlter
    \/ FixInsert
    \/ FixRecoverDelete
    \/ FixRecoverInsert

Next ==
    \/ SkipGuard
    \/ CheckEnv
    \/ CheckConnection
    \/ CheckDatabaseVersion
    \/ CheckV1Tables
    \/ FixStep
    \/ ApplyMigration
    \/ Finally
    \/ AddColumnOutOfBand

Spec == Init /\ [][Next]_vars

----------------------------------------------------------------------------
(* fixMigrationState alone, called MaxCalls times in succession on any       *)
(* database                                                                  *)

InitRepair ==
    /\ env = [SKIP_DB_CHECK |-> Undefined,
              DATABASE_URL |-> <<"postgresql", "//u", "p@db", "5432/umami">>,
              SKIP_DB_MIGRATION |-> Undefined]
    /\ pc = "fix_readLedger"
    /\ step = 5
    /\ calls = 0
    /\ InitCommon
    /\ peer = NoPeer

\* The next call, made when the last one has returned
CallAgain ==
    /\ pc = "finally"
    /\ ~err
    /\ calls < MaxCalls
    /\ pc' = "fix_readLedger"
    /\ io' = <<>>
    /\ existingMigrations' = {}
    /\ exists' = FALSE
    /\ UNCHANGED <<peer, env, ledger, column, conn, step, err, exitCode, version,
                   ret, nextId, db0, calls>>

NextRepair ==
    \/ FixStep
    \/ AddColumnOutOfBand
    \/ CallAgain

SpecRepair == InitRepair /\ [][NextRepair]_vars

----------------------------------------------------------------------------
(* fixMigrationState when the metadata query may answer with a result set   *)
(* of another shape                                                          *)

\* Steps 2 and 3 when the query succeeds with a malformed result set
FixReadColumnMalformed ==
    /\ pc = "fix_readColumn"
    /\ io' = Logged("select column: malformed result", TRUE)
    /\ conn' = TRUE
    /\ \E columnExists \in MalformedResults :
        /\ exists' = FirstExists(columnExists)
        /\ IF exists' /\ HasValidMigration(existingMigrations)
           THEN Returns(TRUE)
           ELSE /\ pc' = IF Cardinality(existingMigrations) > 0
                         THEN "fix_delete"
                         ELSE AfterClear(exists')
                /\ UNCHANGED <<err, ret>>
    /\ UNCHANGED <<peer, env, ledger, column, step, exitCode, version,
                   existingMigrations, nextId, db0, calls>>

NextMalformed ==
    \/ FixStep
    \/ FixReadColumnMalformed

SpecMalformed == InitRepair /\ [][NextMalformed]_vars

----------------------------------------------------------------------------
(* fixMigrationState cut short by the death of the process, and run again   *)

\* The process dies between two statements of fixMigrationState: what it
\* wrote stays written, its locals and connection are lost. Of the dead run
\* the log keeps the last statement only.
Crash ==
    /\ pc \in FixPcs \ {"fix_readLedger"}
    /\ calls < MaxCalls
    /\ pc' = "crashed"
    /\ conn' = FALSE
    /\ io' = <<io[Len(io)], [op |-> "crash", ok |-> TRUE]>>
    /\ UNCHANGED <<peer, env, ledger, column, step, err, exitCode, version,
                   existingMigrations, exists, ret, nextId, db0, calls>>

\* The script is started again and reaches fixMigrationState
Rerun ==
    /\ pc = "crashed"
    /\ pc' = "fix_readLedger"
    /\ existingMigrations' = {}
    /\ exists' = FALSE
    /\ UNCHANGED <<peer, env, ledger, column, conn, step, err, exitCode, version,
                   ret, nextId, io, db0, calls>>

NextCrash ==
    \/ FixStep
    \/ AddColumnOutOfBand
    \/ Crash
    \/ Rerun

SpecCrash == InitRepair /\ [][NextCrash]_vars

----------------------------------------------------------------------------
(* The diagnostic variant of the script: its fixMigrationState only reads,  *)
(* the driver is the same                                                    *)

\* What the metadata query of the variant may return: one row, or none
DiagResults(col) == MetadataResults(col) \cup {<<>>}

\* DiagReadColumn with no try around the query
DiagReadColumn_Uncaught ==
    /\ pc = "diag_readColumn"
    /\ \E o \in Outcomes :
        /\ io' = Logged("select column", o.ok)
        /\ conn' \in ConnAfter(o.ok)
        /\ IF o.ok
           THEN \E columnExists \in DiagResults(column) :
                  IF Len(columnExists) > 0
                  THEN /\ exists' = columnExists[1].exists
                       /\ pc' = "diag_readMigration"
                       /\ err' = err
                  ELSE exists' = exists /\ Throws
           ELSE exists' = exists /\ Throws
    /\ UNCHANGED <<peer, env, ledger, column, step, exitCode, version,
                   existingMigrations, ret, nextId, db0, calls>>

\* The metadata query and the log of columnExists[0].exists: a failed query
\* and the TypeError on an empty result both land in the catch block
DiagReadColumn ==
    /\ pc = "diag_readColumn"
    /\ \E o \in Outcomes :
        /\ io' = Logged("select column", o.ok)
        /\ conn' \in ConnAfter(o.ok)
        /\ IF o.ok
           THEN \E columnExists \in DiagResults(column) :
                  IF Len(columnExists) > 0
                  THEN /\ exists' = columnExists[1].exists
                       /\ pc' = "diag_readMigration"
                  ELSE /\ exists' = exists
                       /\ pc' = "diag_disconnect"
           ELSE /\ exists' = exists
                /\ pc' = "diag_disconnect"
    /\ UNCHANGED <<peer, env, ledger, column, step, err, exitCode, version,
                   existingMigrations, ret, nextId, db0, calls>>

\* The ledger query; the test that follows only logs
DiagReadMigration ==
    /\ pc = "diag_readMigration"
    /\ \E o \in Outcomes :
        /\ io' = Logged("select migration", o.ok)
        /\ conn' \in ConnAfter(o.ok)
        /\ existingMigrations' = IF o.ok THEN TargetRows(ledger)
                                         ELSE existingMigrations
    /\ pc' = "diag_disconnect"
    /\ UNCHANGED <<peer, env, ledger, column, step, err, exitCode, version,
                   exists, ret, nextId, db0, calls>>

\* The finally block of the variant's fixMigrationState; nothing is returned
DiagDisconnect ==
    /\ pc = "diag_disconnect"
    /\ io' = Logged("$disconnect", TRUE)
    /\ conn' = FALSE
    /\ Completes
    /\ UNCHANGED <<peer, env, ledger, column, step, exitCode, version,
                   existingMigrations, exists, ret, nextId, db0, calls>>

\* The variant has reached fixMigrationState: any database, any flag
InitDiag ==
    /\ env \in [SKIP_DB_CHECK : {Undefined},
                DATABASE_URL : {<<"postgresql", "//u", "p@db", "5432/umami">>},
                SKIP_DB_MIGRATION : FlagValues]
    /\ pc = "diag_readColumn"
    /\ step = 5
    /\ calls = 0
    /\ InitCommon
    /\ peer = NoPeer

NextDiag ==
    \/ DiagReadColumn
    \/ DiagReadMigration
    \/ DiagDisconnect
    \/ Finally
    \/ ApplyMigration

SpecDiag == InitDiag /\ [][NextDiag]_vars

----------------------------------------------------------------------------
(* Two processes run fixMigrationState against the same database, their     *)
(* statements interleaved in any order. The actions of fixMigrationState    *)
(* move the process in hand; peer holds the other one.                       *)

\* The other process runs its next statement: the two change places
Switch ==
    /\ peer.pc \in FixPcs
    /\ peer' = Private(pc, err, existingMigrations, exists, ret, conn, db0, calls)
    /\ pc' = peer.pc
    /\ err' = peer.err
    /\ existingMigrations' = peer.existingMigrations
    /\ exists' = peer.exists
    /\ ret' = peer.ret
    /\ conn' = peer.conn
    /\ db0' = peer.db0
    /\ calls' = peer.calls
    /\ UNCHANGED <<env, ledger, column, step, exitCode, version, nextId, io>>

\* Both processes are about to call fixMigrationState; the column is absent
\* and the ledger holds no row of the migration
InitConcurrent ==
    /\ env = [SKIP_DB_CHECK |-> Undefined,
              DATABASE_URL |-> <<"postgresql", "//u", "p@db", "5432/umami">>,
              SKIP_DB_MIGRATION |-> Undefined]
    /\ pc = "fix_readLedger"
    /\ step = 5
    /\ calls = 0
    /\ InitCommon
    /\ ~column
    /\ TargetRows(ledger) = {}
    /\ peer = Private("fix_readLedger", FALSE, {}, FALSE, <<>>, FALSE, Snapshot, 0)

NextConcurrent ==
    \/ FixStep
    \/ Switch

SpecConcurrent == InitConcurrent /\ [][NextConcurrent]_vars

----------------------------------------------------------------------------
(* Vocabulary of the properties *)

IoOps == {io[i].op : i \in DOMAIN io}

WriteOps == {"DELETE", "ALTER", "INSERT"}

QueryOps == {"select version", "select v1", "select migration", "select column"}

RepairOps == {"select migration", "select column"} \cup WriteOps

SomeFailed == \E i \in DOMAIN io : ~io[i].ok

\* A row is valid-applied
ValidApplied(m) ==
    m.finished_at # Null /\ m.applied_steps_count > 0 /\ m.rolled_back_at = Null

RowsOfTarget(l) == {m \in l : m.migration_name = "09_update_hostname_region"}

\* The column exists and a valid-applied row of the migration is in the ledger
ConsistentDb(db) == db.column /\ \E m \in RowsOfTarget(db.ledger) : ValidApplied(m)

\* Exactly one row of the migration, valid-applied with one applied step
OneValidRow ==
    \E m \in ledger :
        /\ RowsOfTarget(ledger) = {m}
        /\ ValidApplied(m)
        /\ m.applied_steps_count = 1

\* io and db0 describe the call of fixMigrationState under way or just ended
InCall == pc \in (FixPcs \ {"fix_readLedger"}) \cup {"finally"}

\* The call of fixMigrationState has ended
CallEnded == pc = "finally" /\ calls > 0

ReturnedTrue == ~err /\ Len(ret) = calls /\ ret[calls] = TRUE

----------------------------------------------------------------------------
(* C1: a failure of any statement of the repair, those of the duplicate-     *)
(* column recovery included, never aborts the pipeline: fixMigrationState    *)
(* returns instead of throwing, so during step 5 the driver's err stays      *)
(* false and the process does not exit.                                      *)
C1_RepairFailureNeverAborts == step = 5 => (~err /\ pc # "exited")

(* C2: whenever the process has exited, the connection is disconnected.      *)
C2_DisconnectedAtExit == pc = "exited" => ~conn

(* C3, as claimed: a ledger with a row started before the cutoff always      *)
(* stops the process with status 1 in checkV1Tables, before any statement of *)
(* the repair or the migration tool; a ledger with no such row lets          *)
(* checkV1Tables complete and the pipeline go on to fixMigrationState.       *)
C3_LegacyAlwaysStops ==
    LET legacy == \E m \in ledger : m.started_at < Cutoff
        past == step > 4 \/ (step = 4 /\ pc # "checkV1Tables")
    IN  /\ (legacy /\ past) =>
              /\ pc = "exited" /\ exitCode = 1 /\ step = 4
              /\ IoOps \cap (RepairOps \cup {"prisma migrate deploy"}) = {}
        /\ (~legacy /\ past) =>
              \/ step = 4 /\ pc = "finally" /\ ~err
              \/ step > 4

(* C3, amended: the same when the ledger query of checkV1Tables succeeds.    *)
C3_LegacyStopsWhenQueried ==
    LET legacy == \E m \in ledger : m.started_at < Cutoff
        past == step > 4 \/ (step = 4 /\ pc # "checkV1Tables")
        queried == \E i \in DOMAIN io : io[i].op = "select v1" /\ io[i].ok
    IN  /\ (legacy /\ past /\ queried) =>
              /\ pc = "exited" /\ exitCode = 1 /\ step = 4
              /\ IoOps \cap (RepairOps \cup {"prisma migrate deploy"}) = {}
        /\ (~legacy /\ past) =>
              \/ step = 4 /\ pc = "finally" /\ ~err
              \/ step > 4

C3_Witness ==
    /\ pc = "exited" /\ exitCode = 1 /\ step = 4
    /\ \E m \in ledger : m.started_at < Cutoff

(* C4: when the ledger query of checkV1Tables fails, checkV1Tables completes *)
(* without throwing, the next function the driver calls is                   *)
(* fixMigrationState, and the process does not exit at step 4.               *)
C4_V1QueryFailureSuppressed ==
    \A i \in DOMAIN io :
        (io[i].op = "select v1" /\ ~io[i].ok) =>
            /\ Len(io) = i => (pc = "finally" /\ step = 4 /\ ~err)
            /\ Len(io) = i + 1 => (pc = "fix_readLedger" /\ step = 5 /\ ~err)
            /\ step >= 4
            /\ pc = "exited" => step > 4

C4_Witness ==
    /\ pc = "fix_readLedger"
    /\ \E i \in DOMAIN io : io[i].op = "select v1" /\ ~io[i].ok

AddedOutOfBand == "out-of-band ADD COLUMN" \in IoOps

(* C6: called on a database that is not consistent, with no statement        *)
(* failing and nobody else changing the database during the call,            *)
(* fixMigrationState ends with the column present and exactly one row of the *)
(* migration, valid-applied with one applied step, and returns true.         *)
C6_RepairConverges ==
    (CallEnded /\ ~ConsistentDb(db0) /\ ~SomeFailed /\ ~AddedOutOfBand) =>
        /\ ReturnedTrue
        /\ column
        /\ OneValidRow

C6_Witness ==
    /\ CallEnded /\ ~SomeFailed /\ ~AddedOutOfBand
    /\ ~db0.column /\ db0.ledger = {}
    /\ column /\ OneValidRow

\* The ALTER was not attempted, or its failure was absorbed
AlterAbsorbed == "ALTER" \in IoOps => ~err

OnlyDuplicateFailed ==
    \A i \in DOMAIN io :
        ~io[i].ok => /\ io[i].op = "ALTER"
                     /\ \E j \in 1..(i - 1) : io[j].op = "out-of-band ADD COLUMN"

C8_NoUrlNoConnection ==
    (env.DATABASE_URL \in {<<>>, <<"">>} /\ env.SKIP_DB_CHECK \in {<<>>, <<"">>}) =>
        /\ step = 1
        /\ IoOps \cap ({"$connect", "prisma migrate deploy"} \cup QueryOps \cup WriteOps) = {}
        /\ ~conn
        /\ pc = "exited" => exitCode = 1

C8_Witness ==
    /\ pc = "exited" /\ exitCode = 1
    /\ env.DATABASE_URL = <<>> /\ env.SKIP_DB_CHECK = <<>>

(* C9: with SKIP_DB_CHECK set, the process exits with status 0 before any    *)
(* step: nothing is connected, queried, written or invoked, whatever the     *)
(* rest of the environment and the database are.                             *)
C9_SkipCheckDoesNothing ==
    (env.SKIP_DB_CHECK \notin {<<>>, <<"">>}) =>
        /\ pc \in {"boot", "exited"}
        /\ pc = "exited" => exitCode = 0
        /\ io = <<>>
        /\ ~conn
        /\ Snapshot = db0

C9_Witness ==
    /\ pc = "exited" /\ exitCode = 0
    /\ env.SKIP_DB_CHECK = <<"1">>
    /\ env.DATABASE_URL = <<>>
    /\ \E m \in ledger : m.started_at < Cutoff

(* C10: when the version query has answered with a text that coerces to      *)
(* major.minor.patch, checkDatabaseVersion throws iff that version is        *)
(* strictly below 9.4.0 for the schemes postgresql and postgres, and below   *)
(* 5.7.0 for any other scheme.                                               *)
C10_VersionGate ==
    (/\ step = 3 /\ pc = "finally"
     /\ io[Len(io)] = [op |-> "select version", ok |-> TRUE]
     /\ version # <<>>) =>
        LET scheme == Head(env.DATABASE_URL)
            min == IF scheme \in {"postgresql", "postgres"}
                   THEN <<9, 4, 0>> ELSE <<5, 7, 0>>
            Num(v) == v[1] * 10000 + v[2] * 100 + v[3]
        IN  err <=> Num(version) < Num(min)

C10_Witness ==
    /\ step = 3 /\ pc = "finally" /\ ~err
    /\ io[Len(io)] = [op |-> "select version", ok |-> TRUE]
    /\ version = <<9, 4, 0>>
    /\ Head(env.DATABASE_URL) = "postgres"

----------------------------------------------------------------------------
\* The step a position belongs to
StepAt(p, s) ==
    \/ p \in {"boot", "checkEnv"} /\ s = 1
    \/ p = "checkConnection" /\ s = 2
    \/ p = "checkDatabaseVersion" /\ s = 3
    \/ p = "checkV1Tables" /\ s = 4
    \/ p \in FixPcs /\ s = 5
    \/ p = "applyMigration" /\ s = 6
    \/ p \in {"finally", "exited"}

\* The order of the steps, and what follows a throw
OrderedSteps ==
    /\ StepAt(pc', step')
    /\ step' \in {step, step + 1}
    /\ step' = step + 1 => (pc = "finally" /\ ~err)
    /\ (err' /\ ~err) => pc' = "finally"
    /\ (pc = "finally" /\ err) => (pc' = "exited" /\ exitCode' = 1)

(* C11, as claimed: the steps run in the order of the list, each starting    *)
(* only when the one before has completed without throwing; after a throw no *)
(* later step starts and the process exits with status 1; the process exits  *)
(* with status 0 only when applyMigration has completed.                     *)
C11_OrderAndExit ==
    [][/\ OrderedSteps
       /\ (pc # "exited" /\ pc' = "exited" /\ exitCode' = 0) =>
              (step = 6 /\ pc = "finally" /\ ~err)]_vars

(* C11, amended: the same, the process exiting with status 0 only when       *)
(* applyMigration has completed or, before any step, when SKIP_DB_CHECK is   *)
(* set.                                                                      *)
C11_OrderAndExitOrSkip ==
    [][/\ OrderedSteps
       /\ (pc # "exited" /\ pc' = "exited" /\ exitCode' = 0) =>
              \/ step = 6 /\ pc = "finally" /\ ~err
              \/ pc = "boot" /\ env.SKIP_DB_CHECK \notin {<<>>, <<"">>} /\ io = <<>>]_vars

C11_Witness ==
    /\ pc = "exited" /\ exitCode = 0 /\ step = 6
    /\ env.SKIP_DB_CHECK = <<>>
    /\ "prisma migrate deploy" \in IoOps

C17_ConnectionKeptOpen ==
    /\ pc \in {"checkDatabaseVersion", "checkV1Tables", "fix_readLedger",
               "applyMigration"} => conn
    /\ Cardinality({i \in DOMAIN io :
                      /\ io[i].op = "$disconnect"
                      /\ \E j \in 1..(i - 1) : io[j].op = "$connect" /\ io[j].ok}) <= 1

(* C13: when a call of fixMigrationState has returned true, the call that    *)
(* follows it, nobody else changing the database and none of its statements  *)
(* failing, attempts no DELETE, ALTER or INSERT, leaves ledger and schema as *)
(* the first call left them, and returns true.                               *)
C13_SecondCallIsNoOp ==
    (/\ calls = 2 /\ InCall
     /\ Len(ret) >= 1 /\ ret[1] = TRUE
     /\ ~SomeFailed /\ ~AddedOutOfBand) =>
        /\ IoOps \cap WriteOps = {}
        /\ Snapshot = db0
        /\ pc = "finally" => ReturnedTrue

(* C15: whenever fixMigrationState returns true the column exists and the    *)
(* ledger holds a valid-applied row of the migration; the duplicate-column   *)
(* recovery is entered only after the ALTER failed on a column that exists.  *)
C15_TrueMeansConsistent ==
    /\ (CallEnded /\ ReturnedTrue) =>
          (column /\ \E m \in RowsOfTarget(ledger) : ValidApplied(m))
    /\ pc \in {"fix_recDelete", "fix_recInsert"} =>
          (column /\ \E i \in DOMAIN io : io[i].op = "ALTER" /\ ~io[i].ok)

\* The rows of other migrations
RowsOfOthers(l) == l \ RowsOfTarget(l)

(* C19: every step of the repair leaves the rows of other migrations as they *)
(* are and never drops the column; every row it adds is a row of the target  *)
(* migration with the fixed checksum, no rollback time and one applied step; *)
(* a DELETE that succeeds leaves no row of the target migration, valid or    *)
(* not.                                                                      *)
C19_WritesConfined ==
    [][/\ RowsOfOthers(ledger') = RowsOfOthers(ledger)
       /\ column => column'
       /\ \A m \in ledger' \ ledger :
             /\ m.migration_name = "09_update_hostname_region"
             /\ m.checksum = "e94d9993b17ac5c330ae3f872fd5869fb8095a3f3a7d31d2aaade73dc45fbe9c"
             /\ m.rolled_back_at = Null
             /\ m.applied_steps_count = 1
       /\ ledger \ ledger' # {} => RowsOfTarget(ledger') = {}
       /\ (Len(io') = Len(io) + 1 /\ io'[Len(io')] = [op |-> "DELETE", ok |-> TRUE]) =>
             RowsOfTarget(ledger') = {}]_vars

C19_Witness ==
    /\ CallEnded /\ ReturnedTrue
    /\ \E i \in DOMAIN io : io[i] = [op |-> "DELETE", ok |-> TRUE]
    /\ \E i \in DOMAIN io : io[i] = [op |-> "INSERT", ok |-> TRUE]
    /\ RowsOfOthers(ledger) # {}
    /\ \E m \in RowsOfTarget(db0.ledger) : ValidApplied(m) /\ m \notin ledger
----------------------------------------------------------------------------
(* C14: when the process has died inside fixMigrationState, the next run in  *)
(* which no statement fails ends the repair with the column present and at   *)
(* least one valid-applied row of the migration, and with exactly one when   *)
(* the crash left no row of the migration in the ledger                      *)

\* The position in io of the last crash
LastCrash ==
    CHOOSE k \in DOMAIN io :
        io[k].op = "crash" /\ \A j \in DOMAIN io : j > k => io[j].op # "crash"

\* The run after the last crash has ended its repair with no failed statement
HealedRun ==
    /\ CallEnded
    /\ "crash" \in IoOps
    /\ \A j \in DOMAIN io : j > LastCrash => io[j].ok

C14_CrashHeals ==
    HealedRun =>
        /\ column
        /\ \E m \in RowsOfTarget(ledger) : ValidApplied(m)
        /\ RowsOfTarget(db0.ledger) = {} => OneValidRow

\* The crash came right after a DELETE that emptied the ledger of the
\* migration's rows, and the next run has ended with no failure
C14_Witness ==
    /\ HealedRun
    /\ LastCrash > 1
    /\ io[LastCrash - 1] = [op |-> "DELETE", ok |-> TRUE]
    /\ RowsOfTarget(db0.ledger) = {}
    /\ ~db0.column
    /\ OneValidRow
----------------------------------------------------------------------------
(* C20: in the diagnostic variant fixMigrationState only reads: on every     *)
(* database it issues no DELETE, ALTER or INSERT, leaves ledger and column   *)
(* as they were, raises nothing to the driver, disconnects in its own        *)
(* cleanup before it returns, and the driver goes on to applyMigration       *)

C20_DiagnosticOnlyReads ==
    [][step = 5 =>
          /\ ledger' = ledger
          /\ column' = column
          /\ \A i \in DOMAIN io' : io'[i].op \notin WriteOps
          /\ ~err'
          /\ (pc # "finally" /\ pc' = "finally") =>
                 /\ io'[Len(io')].op = "$disconnect"
                 /\ ~conn'
          /\ pc = "finally" => (step' = 6 /\ pc' = "applyMigration")]_vars

\* Column present with no row of the migration: both queries answered, and
\* the driver has moved on to applyMigration
C20_Witness ==
    /\ step = 6
    /\ pc = "applyMigration"
    /\ column
    /\ RowsOfTarget(ledger) = {}
    /\ Len(io) = 4
    /\ io[1] = [op |-> "select column", ok |-> TRUE]
    /\ io[2] = [op |-> "select migration", ok |-> TRUE]
    /\ io[3].op = "$disconnect"
    /\ io[4].op = "$disconnect"
----------------------------------------------------------------------------
(* C16, as claimed: when the metadata query answers with a malformed or      *)
(* empty result set, fixMigrationState raises nothing and takes the column   *)
(* for absent: it clears the rows of the migration, attempts the ALTER, and, *)
(* when the column is there, still ends with the column present and exactly  *)
(* one valid-applied row.                                                    *)

GotMalformed == "select column: malformed result" \in IoOps

OnlyPresentColumnAlterFailed ==
    \A i \in DOMAIN io : ~io[i].ok => (io[i].op = "ALTER" /\ db0.column)

----------------------------------------------------------------------------
(* C18, as claimed, on the runs in which no statement fails but an ALTER     *)
(* that finds the column added by the other process: two processes run       *)
(* fixMigrationState at once from column absent and no row of the migration; *)
(* when both have finished the column exists, the ledger holds exactly one   *)
(* valid-applied row of the migration, and neither process is to exit 1.     *)

BothDone == pc = "finally" /\ peer.pc = "finally"

\* No statement failed but an ALTER that came after the other process's
OnlyBeatenAlterFailed ==
    \A i \in DOMAIN io :
        ~io[i].ok => /\ io[i].op = "ALTER"
                     /\ \E j \in 1..(i - 1) : io[j] = [op |-> "ALTER", ok |-> TRUE]

====
